---- MODULE Spec2Model ----
(***************************************************************************)
(* HappyDog backend: cartoon-job orchestration, the social graph (posts,   *)
(* comments, likes and their counters) and nose-print admission, modelled  *)
(* as state machines over the Firestore documents and the Faiss index.     *)
(*                                                                         *)
(* Each subsystem has its own next-state relation and specification        *)
(* (SpecJobs, SpecSocial, SpecNose); the variables of the other subsystems *)
(* stay at their initial value.                                            *)
(***************************************************************************)
EXTENDS Integers, Sequences, FiniteSets, Bags, TLC

(***************************************************************************)
(* Bounds of the model.                                                    *)
(***************************************************************************)
MaxJobs == 1
MaxReqs == 2
MaxAdm == 2
MaxPosts == 1
MaxComments == 1
MaxTxns == 2
MaxTransactions == 2
MaxCount == 3
MaxDistance == 15
MaxMentions == 2
MaxClock == 3
MaxDay == 0
MaxThreads == 4
MaxTokens == 3
MaxRecords == 4
MaxLimit == 2
MaxRegThreads == 2
MaxRegistrations == 3
MaxLogs == 2
WorkerPoolSize == 3

Users == {"u1", "u2"}

VARIABLES
    jobs,           \* cartoon_jobs collection: job id -> document
    wpc,            \* position of each job's background thread
    trail,          \* per job: the successive values taken by status
    req,            \* in-flight HTTP requests on /api/cartoon-jobs/<job_id>
    resp,           \* the last HTTP response given on /api/cartoon-jobs/<job_id>
    notifications,  \* notifications collection (a bag of documents)
    cartoon_posts,  \* jobs for which a post was synthesized
    early_cancel,   \* jobs that were CANCELING before their thread ran
    pets,           \* pets collection: pet id -> document
    faiss_index,    \* NosePrintPipeline.faiss_index: the vectors in memory
    disk_index,     \* the index file at faiss_index_path
    adm,            \* in-flight POST /api/pets/<pet_id>/nose-print requests
    admitted,       \* admissions that returned SUCCESS: pet and vector
    nose_requests,  \* nose-print requests accepted so far
    nose_status,    \* the status of the last nose-print response
    posts,          \* posts collection: post id -> document
    comments,       \* comments collection: comment id -> document
    likes,          \* likes collection: the ids of the documents present
    post_likes,     \* posts/<post_id>/likes/<user_id> subcollections
    txn,            \* Firestore transactions in flight
    social_notifications,  \* notifications written by the social services
    transactions,   \* transactions begun so far
    applied,        \* per like document: parity of the committed toggles
    raced,          \* like documents two transactions ran on at once
    unlikes,        \* committed unlikes so far
    pipeline_run,   \* one run of process_image: what it met and what it returned
    registry,       \* per user: the pet document written by POST /api/pets
    pet_settings,   \* users whose pet has a pet_settings document
    breed_service,  \* whether PetService was given a breed service
    pet_response,   \* the last response of the pets and settings routes
    mention_run,    \* one comment: nicknames, text, users, and what was notified
    post_docs,      \* post documents with their text and media
    blobs,          \* posts whose media blob is in the bucket
    clock,          \* the time datetime.now() returns
    deleting,       \* the delete_post call between its blob loop and post_ref.delete()
    post_response, \* the last request on a post and its outcome
    conversion,     \* one call of for_firestore: the object and what it returned
    threads,        \* the threads of process_cartoon_in_background, in start order
    submit_code,    \* status code of the last POST /api/cartoon-jobs
    tokens,         \* the tokens issued, by jti: type and identity
    revoked_tokens, \* the jti of the revoked_tokens collection
    logged_out,     \* the jti named in a logout that answered 200
    auth_response,  \* the last auth request and its answer
    paging,         \* one client paging through the records of a pet
    pet_collection, \* the pets collection: the user_id of each document, in order of creation
    reg_threads,    \* the register_pet requests in progress
    reg_count,      \* the register_pet requests received
    reg_response,   \* the last answer of register_pet
    care_owner,     \* the user_id of each pet document
    care_settings,  \* the pet_settings documents
    care_logs,      \* the pet_care_logs documents: the pet_id of each
    care_response   \* the last pet care request and its answer

jobVars == <<jobs, wpc, trail, req, resp, notifications, cartoon_posts, early_cancel>>

noseVars == <<pets, faiss_index, disk_index, adm, admitted, nose_requests, nose_status>>

socialVars == <<posts, comments, likes, post_likes, txn, social_notifications,
                transactions, applied, raced, unlikes>>

pipelineVars == <<pipeline_run>>

registrationVars == <<registry, pet_settings, breed_service, pet_response>>

mentionVars == <<mention_run>>

postVars == <<post_docs, blobs, clock, deleting, post_response>>

conversionVars == <<conversion>>

threadVars == <<threads, submit_code>>

authVars == <<tokens, revoked_tokens, logged_out, auth_response>>

pagingVars == <<paging>>

regThreadVars == <<pet_collection, reg_threads, reg_count, reg_response>>

careVars == <<care_owner, care_settings, care_logs, care_response>>

vars ==
    <<jobVars, noseVars, socialVars, pipelineVars,
      registrationVars, mentionVars, postVars, conversionVars,
      threadVars, authVars, pagingVars, regThreadVars, careVars>>

\* What the steps of one subsystem leave alone.
notJobs ==
    <<noseVars, socialVars, pipelineVars, registrationVars,
      mentionVars, postVars, conversionVars, threadVars, authVars,
      pagingVars, regThreadVars, careVars>>

notNose ==
    <<jobVars, socialVars, pipelineVars, registrationVars,
      mentionVars, postVars, conversionVars, threadVars, authVars,
      pagingVars, regThreadVars, careVars>>

notSocial ==
    <<jobVars, noseVars, pipelineVars, registrationVars,
      mentionVars, postVars, conversionVars, threadVars, authVars,
      pagingVars, regThreadVars, careVars>>

notPipeline ==
    <<jobVars, noseVars, socialVars, registrationVars, mentionVars,
      postVars, conversionVars, threadVars, authVars, pagingVars,
      regThreadVars, careVars>>

notRegistration ==
    <<jobVars, noseVars, socialVars, pipelineVars, mentionVars,
      postVars, conversionVars, threadVars, authVars, pagingVars,
      regThreadVars, careVars>>

notMention ==
    <<jobVars, noseVars, socialVars, pipelineVars,
      registrationVars, postVars, conversionVars, threadVars,
      authVars, pagingVars, regThreadVars, careVars>>

notPosts ==
    <<jobVars, noseVars, socialVars, pipelineVars,
      registrationVars, mentionVars, conversionVars, threadVars,
      authVars, pagingVars, regThreadVars, careVars>>

notConversion ==
    <<jobVars, noseVars, socialVars, pipelineVars,
      registrationVars, mentionVars, postVars, threadVars,
      authVars, pagingVars, regThreadVars, careVars>>

notThreads ==
    <<jobVars, noseVars, socialVars, pipelineVars,
      registrationVars, mentionVars, postVars, conversionVars,
      authVars, pagingVars, regThreadVars, careVars>>

notAuth ==
    <<jobVars, noseVars, socialVars, pipelineVars,
      registrationVars, mentionVars, postVars, conversionVars,
      threadVars, pagingVars, regThreadVars, careVars>>

notPaging ==
    <<jobVars, noseVars, socialVars, pipelineVars,
      registrationVars, mentionVars, postVars, conversionVars,
      threadVars, authVars, regThreadVars, careVars>>

notRegThreads ==
    <<jobVars, noseVars, socialVars, pipelineVars,
      registrationVars, mentionVars, postVars, conversionVars,
      threadVars, authVars, pagingVars, careVars>>

notCare ==
    <<jobVars, noseVars, socialVars, pipelineVars,
      registrationVars, mentionVars, postVars, conversionVars,
      threadVars, authVars, pagingVars, regThreadVars>>

(***************************************************************************)
(* CartoonJobStatus and the CartoonJob document.                           *)
(***************************************************************************)
PROCESSING == "processing"
COMPLETED  == "completed"
FAILED     == "failed"
CANCELING  == "canceling"

JobIds == 1..MaxJobs
Reqs   == 1..MaxReqs

NoJob == [exists |-> FALSE, user_id |-> "none", status |-> "none",
          result_image_url |-> "null", error_message |-> "null"]

CartoonJob(u) == [exists |-> TRUE, user_id |-> u, status |-> PROCESSING,
                  result_image_url |-> "null", error_message |-> "null"]

IdleReq == [pc |-> "idle", op |-> "none", caller |-> "none", job |-> 0, prev |-> "none"]
NoResp  == [op |-> "none", caller |-> "none", job |-> 0, code |-> 0,
            error_code |-> "none", existed |-> FALSE]

\* A variant that writes the notification whoever the recipient is.
create_notification_to_anyone(ns, recipient_id, sender_id, n_type, target_id) ==
    ns (+) SetToBag({[recipient_id |-> recipient_id, sender |-> sender_id,
                      type |-> n_type, target_id |-> target_id]})

\* NotificationService.create_notification: nothing is written when the
\* recipient is the sender; the sender "system" needs no user lookup.
create_notification(ns, recipient_id, sender_id, n_type, target_id) ==
    IF recipient_id = sender_id
    THEN ns
    ELSE ns (+) SetToBag({[recipient_id |-> recipient_id, sender |-> sender_id,
                           type |-> n_type, target_id |-> target_id]})

\* Appends to a job's trail when the status value changes.
Record(tr, j, old, new) ==
    IF old = new THEN tr ELSE [tr EXCEPT ![j] = Append(@, new)]

InitJobs ==
    /\ jobs = [j \in JobIds |-> NoJob]
    /\ wpc = [j \in JobIds |-> "none"]
    /\ trail = [j \in JobIds |-> << >>]
    /\ req = [r \in Reqs |-> IdleReq]
    /\ resp = NoResp
    /\ notifications = EmptyBag
    /\ cartoon_posts = {}
    /\ early_cancel = {}

(***************************************************************************)
(* POST /api/cartoon-jobs: the job document is written in PROCESSING and   *)
(* a daemon thread running process_cartoon_in_background is started.       *)
(***************************************************************************)
create_cartoon_job(u) ==
    LET n == Cardinality({j \in JobIds : jobs[j].exists}) IN
    /\ n < MaxJobs
    /\ jobs' = [jobs EXCEPT ![n + 1] = CartoonJob(u)]
    /\ wpc' = [wpc EXCEPT ![n + 1] = "spawned"]
    /\ trail' = [trail EXCEPT ![n + 1] = <<PROCESSING>>]
    /\ UNCHANGED <<req, resp, notifications, cartoon_posts, early_cancel>>
    /\ UNCHANGED notJobs

(***************************************************************************)
(* GET /api/cartoon-jobs/<job_id>: get_job_by_id_and_owner returns None    *)
(* for a missing document and for another user's document alike.           *)
(***************************************************************************)
get_job_by_id_and_owner(doc, user_id) ==
    IF doc.exists /\ doc.user_id = user_id THEN "doc" ELSE "None"

get_cartoon_job_status(r, u, j) ==
    /\ req[r].pc = "idle"
    /\ resp' =
          IF get_job_by_id_and_owner(jobs[j], u) = "None"
          THEN [op |-> "get", caller |-> u, job |-> j, code |-> 404,
                error_code |-> "JOB_NOT_FOUND_OR_FORBIDDEN", existed |-> jobs[j].exists]
          ELSE [op |-> "get", caller |-> u, job |-> j, code |-> 200,
                error_code |-> "none", existed |-> TRUE]
    /\ UNCHANGED <<jobs, wpc, trail, req, notifications, cartoon_posts, early_cancel>>
    /\ UNCHANGED notJobs

(***************************************************************************)
(* DELETE /api/cartoon-jobs/<job_id>: cancel_cartoon_job reads the         *)
(* document, checks existence, owner and status, and then updates the      *)
(* status with a plain (non-transactional) update, and reads it back.      *)
(***************************************************************************)
\* The checks on the document read: the exception raised, or "ok".
cancel_check(doc, user_id) ==
    IF ~doc.exists THEN "FileNotFoundError"
    ELSE IF doc.user_id # user_id THEN "PermissionError"
    ELSE IF doc.status # PROCESSING THEN "ValueError"
    ELSE "ok"

\* The route's mapping of the exceptions to responses.
cancel_error_response(exc) ==
    CASE exc = "PermissionError"   -> [code |-> 403, error_code |-> "FORBIDDEN"]
      [] exc = "ValueError"        -> [code |-> 409, error_code |-> "INVALID_STATE_FOR_CANCEL"]
      [] exc = "FileNotFoundError" -> [code |-> 404, error_code |-> "JOB_NOT_FOUND"]

cancel_read(r, u, j) ==
    LET c == cancel_check(jobs[j], u) IN
    /\ req[r].pc = "idle"
    /\ IF c = "ok"
       THEN /\ req' = [req EXCEPT ![r] = [pc |-> "checked", op |-> "cancel",
                                         caller |-> u, job |-> j, prev |-> "none"]]
            /\ UNCHANGED resp
       ELSE /\ resp' =
                  [op |-> "cancel", caller |-> u, job |-> j,
                   code |-> cancel_error_response(c).code,
                   error_code |-> cancel_error_response(c).error_code,
                   existed |-> jobs[j].exists]
            /\ UNCHANGED req
    /\ UNCHANGED <<jobs, wpc, trail, notifications, cartoon_posts, early_cancel>>
    /\ UNCHANGED notJobs

cancel_update(r) ==
    LET j == req[r].job IN
    /\ req[r].pc = "checked"
    /\ jobs' = [jobs EXCEPT ![j].status = CANCELING]
    /\ trail' = Record(trail, j, jobs[j].status, CANCELING)
    /\ req' = [req EXCEPT ![r].pc = "updated", ![r].prev = jobs[j].status]
    /\ early_cancel' = IF wpc[j] = "spawned" THEN early_cancel \cup {j} ELSE early_cancel
    /\ UNCHANGED <<wpc, resp, notifications, cartoon_posts>>
    /\ UNCHANGED notJobs

cancel_return(r) ==
    /\ req[r].pc = "updated"
    /\ resp' =
          [op |-> "cancel", caller |-> req[r].caller, job |-> req[r].job,
           code |-> 200, error_code |-> "none", existed |-> TRUE]
    /\ req' = [req EXCEPT ![r] = IdleReq]
    /\ UNCHANGED <<jobs, wpc, trail, notifications, cartoon_posts, early_cancel>>
    /\ UNCHANGED notJobs

(***************************************************************************)
(* process_cartoon_in_background.  The thread calls generate_cartoon       *)
(* (image analysis, prompt, image generation) without reading the job      *)
(* document, and then finalizes the job.                                   *)
(***************************************************************************)
\* OpenAIService.generate_cartoon: every exception of the generation is
\* turned into a result with success = False.
generate_cartoon(j, success) ==
    /\ wpc[j] = "spawned"
    /\ wpc' = [wpc EXCEPT ![j] = IF success THEN "gen_ok" ELSE "gen_fail"]
    /\ UNCHANGED <<jobs, trail, req, resp, notifications, cartoon_posts, early_cancel>>
    /\ UNCHANGED notJobs

\* CartoonJobService.complete_cartoon_job_with_post: a post is created
\* with the generated image, CARTOON_SUCCESS is emitted by the system
\* sender and the job becomes COMPLETED with result_image_url set.
complete_cartoon_job_with_post(j) ==
    /\ wpc[j] = "gen_ok"
    /\ jobs' = [jobs EXCEPT ![j].status = COMPLETED, ![j].result_image_url = "url"]
    /\ trail' = Record(trail, j, jobs[j].status, COMPLETED)
    /\ cartoon_posts' = cartoon_posts \cup {j}
    /\ notifications' = create_notification(notifications, jobs[j].user_id, "system",
                                            "CARTOON_SUCCESS", j)
    /\ wpc' = [wpc EXCEPT ![j] = "done"]
    /\ UNCHANGED <<req, resp, early_cancel>>
    /\ UNCHANGED notJobs

\* complete_cartoon_job_with_post raises before it has written anything:
\* the except branch of process_cartoon_in_background takes over.
complete_raises(j) ==
    /\ wpc[j] = "gen_ok"
    /\ wpc' = [wpc EXCEPT ![j] = "cleanup"]
    /\ UNCHANGED <<jobs, trail, req, resp, notifications, cartoon_posts, early_cancel>>
    /\ UNCHANGED notJobs

\* CartoonJobService.fail_cartoon_job_with_notification: CARTOON_FAILED is
\* emitted with the error and the job becomes FAILED with error_message.
fail_cartoon_job_with_notification(j) ==
    /\ wpc[j] \in {"gen_fail", "cleanup"}
    /\ jobs' = [jobs EXCEPT ![j].status = FAILED,
                            ![j].error_message =
                                IF wpc[j] = "gen_fail" THEN "generation error"
                                                       ELSE "processing error"]
    /\ trail' = Record(trail, j, jobs[j].status, FAILED)
    /\ notifications' = create_notification(notifications, jobs[j].user_id, "system",
                                            "CARTOON_FAILED", j)
    /\ wpc' = [wpc EXCEPT ![j] = "done"]
    /\ UNCHANGED <<req, resp, cartoon_posts, early_cancel>>
    /\ UNCHANGED notJobs

\* fail_cartoon_job_with_notification raises: from the else branch the
\* except branch retries it once; from the except branch the error is
\* logged and the thread ends.
fail_raises(j) ==
    /\ wpc[j] \in {"gen_fail", "cleanup"}
    /\ wpc' = [wpc EXCEPT ![j] = IF wpc[j] = "gen_fail" THEN "cleanup" ELSE "done"]
    /\ UNCHANGED <<jobs, trail, req, resp, notifications, cartoon_posts, early_cancel>>
    /\ UNCHANGED notJobs

NextJobs ==
    \/ \E u \in Users : create_cartoon_job(u)
    \/ \E r \in Reqs, u \in Users, j \in JobIds : get_cartoon_job_status(r, u, j)
    \/ \E r \in Reqs, u \in Users, j \in JobIds : cancel_read(r, u, j)
    \/ \E r \in Reqs : cancel_update(r)
    \/ \E r \in Reqs : cancel_return(r)
    \/ \E j \in JobIds, s \in BOOLEAN : generate_cartoon(j, s)
    \/ \E j \in JobIds : complete_cartoon_job_with_post(j)
    \/ \E j \in JobIds : complete_raises(j)
    \/ \E j \in JobIds : fail_cartoon_job_with_notification(j)
    \/ \E j \in JobIds : fail_raises(j)

(***************************************************************************)
(* Nose-print admission: PetService.register_nose_print_for_pet over the   *)
(* NosePrintPipeline and its Faiss index.                                  *)
(***************************************************************************)
PetIds == 1..Cardinality(Users)
Adms   == 1..MaxAdm

\* Embeddings are points on a line; the index search returns the squared
\* L2 distance, in tenths.
Vecs == {0, 3, 6}
Distance(a, b) == (a - b) * (a - b)

duplicate_threshold == 7
outlier_threshold   == 12

None == -1

\* Names a PATCH may give a pet; a pet is registered as "a".
Names == {"b"}

NoPet == [exists |-> FALSE, user_id |-> "none", name |-> "none", is_verified |-> FALSE,
          nose_print_url |-> "None", faiss_id |-> None]

\* The Pet dataclass with its defaults.
Pet(u) == [exists |-> TRUE, user_id |-> u, name |-> "a", is_verified |-> FALSE,
           nose_print_url |-> "None", faiss_id |-> None]

IdleAdm == [pc |-> "idle", pet |-> 0, vector |-> 0, faiss_id |-> None]

InitNose ==
    /\ pets = [p \in PetIds |-> NoPet]
    /\ faiss_index = << >>
    /\ disk_index = << >>
    /\ adm = [a \in Adms |-> IdleAdm]
    /\ admitted = {}
    /\ nose_requests = 0
    /\ nose_status = "none"

\* PetService.get_pet_by_user_id
get_pet_by_user_id(u) == {p \in PetIds : pets[p].exists /\ pets[p].user_id = u}

\* PetService.get_pet_by_id_and_owner
get_pet_by_id_and_owner(p, u) == pets[p].exists /\ pets[p].user_id = u

\* POST /api/pets: a user without a pet gets a new, unverified one.
register_pet(u) ==
    LET n == Cardinality({p \in PetIds : pets[p].exists}) IN
    /\ get_pet_by_user_id(u) = {}
    /\ n < Cardinality(PetIds)
    /\ pets' = [pets EXCEPT ![n + 1] = Pet(u)]
    /\ UNCHANGED <<faiss_index, disk_index, adm, admitted, nose_requests, nose_status>>
    /\ UNCHANGED notNose

\* PATCH /api/pets/<pet_id>: PetUpdateSchema admits name, gender, breed,
\* birthdate, fur_color and health_concerns only.
update_pet(p, u, name) ==
    /\ get_pet_by_id_and_owner(p, u)
    /\ pets[p].name # name
    /\ pets' = [pets EXCEPT ![p].name = name]
    /\ UNCHANGED <<faiss_index, disk_index, adm, admitted, nose_requests, nose_status>>
    /\ UNCHANGED notNose

\* A variant that never takes the ALREADY_VERIFIED short cut.
never_already_verified(pet_info) == FALSE

\* pet_info.get('is_verified', False)
already_verified(pet_info) == pet_info.is_verified

\* register_nose_print_for_pet on a verified pet of the caller: the answer is
\* ALREADY_VERIFIED, whatever the image.
nose_already_verified(p, u) ==
    /\ get_pet_by_id_and_owner(p, u)
    /\ already_verified(pets[p])
    /\ nose_status' = "ALREADY_VERIFIED"
    /\ UNCHANGED <<pets, faiss_index, disk_index, adm, admitted, nose_requests>>
    /\ UNCHANGED notNose

\* register_nose_print_for_pet, steps 1 and 2: ownership, then the
\* ALREADY_VERIFIED short cut; otherwise the pipeline is entered with the
\* image, whose embedding is v.  The request is served by the first free
\* server thread.
nose_begin(a, p, u, v) ==
    /\ adm[a].pc = "idle"
    /\ \A b \in Adms : b < a => adm[b].pc # "idle"
    /\ nose_requests < MaxAdm
    /\ nose_requests' = nose_requests + 1
    /\ get_pet_by_id_and_owner(p, u)
    /\ ~already_verified(pets[p])
    /\ adm' = [adm EXCEPT ![a] = [pc |-> "pipeline", pet |-> p, vector |-> v,
                                  faiss_id |-> None]]
    /\ UNCHANGED <<pets, faiss_index, disk_index, admitted, nose_status>>
    /\ UNCHANGED notNose

\* The nearest neighbour's distance in a non-empty index.
NearestDistance(ix, v) ==
    LET ds == {Distance(ix[i], v) : i \in 1..Len(ix)} IN
    CHOOSE d \in ds : \A e \in ds : d <= e

\* The id process_image hands out on SUCCESS.
new_faiss_id(ntotal) == ntotal

\* A variant without the empty-index short cut.
search_and_classify_always(ntotal, distance) ==
    IF distance <= duplicate_threshold
    THEN [status |-> "DUPLICATE", faiss_id |-> None, searched |-> TRUE]
    ELSE IF distance > outlier_threshold
    THEN [status |-> "INVALID_IMAGE", faiss_id |-> None, searched |-> TRUE]
    ELSE [status |-> "SUCCESS", faiss_id |-> new_faiss_id(ntotal), searched |-> TRUE]

\* process_image from the read of faiss_index.ntotal on: an empty index
\* gives SUCCESS with id 0 at once; otherwise faiss_index.search is called
\* and its nearest distance is classified.
search_and_classify(ntotal, distance) ==
    IF ntotal = 0
    THEN [status |-> "SUCCESS", faiss_id |-> 0, searched |-> FALSE]
    ELSE IF distance <= duplicate_threshold
    THEN [status |-> "DUPLICATE", faiss_id |-> None, searched |-> TRUE]
    ELSE IF distance > outlier_threshold
    THEN [status |-> "INVALID_IMAGE", faiss_id |-> None, searched |-> TRUE]
    ELSE [status |-> "SUCCESS", faiss_id |-> new_faiss_id(ntotal), searched |-> TRUE]

\* NosePrintPipeline.process_image on an image with embedding v.
process_image(ix, v) ==
    search_and_classify(Len(ix), IF Len(ix) = 0 THEN 0 ELSE NearestDistance(ix, v))

\* A variant that also commits a DUPLICATE result.
is_success_or_duplicate(status) == status \in {"SUCCESS", "DUPLICATE"}

\* if status == "SUCCESS"
is_success(status) == status = "SUCCESS"

\* Step 3: the pipeline runs on the index as it is now.  Every status but
\* SUCCESS is returned at once; blob_ok = FALSE is the ERROR outcome (blob
\* missing, image unreadable).
nose_pipeline(a, blob_ok) ==
    LET result == process_image(faiss_index, adm[a].vector)
        status == IF blob_ok THEN result.status ELSE "ERROR" IN
    /\ adm[a].pc = "pipeline"
    /\ IF is_success(status)
       THEN /\ adm' = [adm EXCEPT ![a].pc = "update", ![a].faiss_id = result.faiss_id]
            /\ UNCHANGED nose_status
       ELSE /\ adm' = [adm EXCEPT ![a] = IdleAdm]
            /\ nose_status' = status
    /\ UNCHANGED <<pets, faiss_index, disk_index, admitted, nose_requests>>
    /\ UNCHANGED notNose

\* blob.make_public() or the document update raises: nothing is written and
\* the route answers 500.
nose_update_raises(a) ==
    /\ adm[a].pc = "update"
    /\ adm' = [adm EXCEPT ![a] = IdleAdm]
    /\ nose_status' = "ERROR"
    /\ UNCHANGED <<pets, faiss_index, disk_index, admitted, nose_requests>>
    /\ UNCHANGED notNose

\* A variant that marks the pet verified without recording its index id.
update_data_without_id(url, fid) ==
    [is_verified |-> TRUE, nose_print_url |-> url, faiss_id |-> None]

\* The fields written on SUCCESS.
update_data(url, fid) == [is_verified |-> TRUE, nose_print_url |-> url, faiss_id |-> fid]

\* Step 4, first half: make_public and update_pet with update_data.
nose_update(a) ==
    LET d == update_data("public_url", adm[a].faiss_id) IN
    /\ adm[a].pc = "update"
    /\ pets' = [pets EXCEPT ![adm[a].pet].is_verified = d.is_verified,
                            ![adm[a].pet].nose_print_url = d.nose_print_url,
                            ![adm[a].pet].faiss_id = d.faiss_id]
    /\ adm' = [adm EXCEPT ![a].pc = "add"]
    /\ UNCHANGED <<faiss_index, disk_index, admitted, nose_requests, nose_status>>
    /\ UNCHANGED notNose

\* NosePrintPipeline.add_vector_to_index: the vector is appended in memory
\* and the whole index is written to the file.
add_vector_to_index(ix, v) == Append(ix, v)

\* Step 4, second half: the vector is added and SUCCESS is returned.
nose_add(a) ==
    /\ adm[a].pc = "add"
    /\ faiss_index' = add_vector_to_index(faiss_index, adm[a].vector)
    /\ disk_index' = faiss_index'
    /\ admitted' = admitted \cup {[pet |-> adm[a].pet, vector |-> adm[a].vector]}
    /\ adm' = [adm EXCEPT ![a] = IdleAdm]
    /\ nose_status' = "SUCCESS"
    /\ UNCHANGED <<pets, nose_requests>>
    /\ UNCHANGED notNose

\* add_vector_to_index raises: before the in-memory add, or in write_index
\* after it.  The exception propagates and the route answers 500.
nose_add_raises(a, appended) ==
    /\ adm[a].pc = "add"
    /\ faiss_index' = IF appended THEN add_vector_to_index(faiss_index, adm[a].vector)
                                  ELSE faiss_index
    /\ adm' = [adm EXCEPT ![a] = IdleAdm]
    /\ nose_status' = "ERROR"
    /\ UNCHANGED <<pets, disk_index, admitted, nose_requests>>
    /\ UNCHANGED notNose

NextNose ==
    \/ \E u \in Users : register_pet(u)
    \/ \E p \in PetIds, u \in Users, n \in Names : update_pet(p, u, n)
    \/ \E p \in PetIds, u \in Users : nose_already_verified(p, u)
    \/ \E a \in Adms, p \in PetIds, u \in Users, v \in Vecs : nose_begin(a, p, u, v)
    \/ \E a \in Adms, b \in BOOLEAN : nose_pipeline(a, b)
    \/ \E a \in Adms : nose_update(a)
    \/ \E a \in Adms : nose_update_raises(a)
    \/ \E a \in Adms : nose_add(a)
    \/ \E a \in Adms, b \in BOOLEAN : nose_add_raises(a, b)


(***************************************************************************)
(* process_image as a function of the index count and of the distance the  *)
(* search returns, over every count up to MaxCount and every distance up   *)
(* to MaxDistance (in tenths).                                             *)
(***************************************************************************)
NoResult == [status |-> "none", faiss_id |-> None, searched |-> FALSE]

InitPipeline ==
    pipeline_run \in [ntotal : 0..MaxCount, distance : 0..MaxDistance, result : {NoResult}]

run_process_image ==
    /\ pipeline_run.result = NoResult
    /\ pipeline_run' = [pipeline_run EXCEPT
                           !.result = search_and_classify(pipeline_run.ntotal,
                                                          pipeline_run.distance)]
    /\ UNCHANGED notPipeline

NextPipeline == run_process_image


(***************************************************************************)
(* Pet registration: POST /api/pets with PetSchema and PetService.create_pet, *)
(* and the pet_settings documents of PetCareSettingService.                *)
(***************************************************************************)
\* Breed names a request can carry; the empty one is blank.
Breeds == {"", "poodle", "beagle", "unlisted"}

\* The documents of the breeds collection.
breeds_collection == {"poodle", "beagle"}

\* BreedService.breed_exists
breed_exists(breed_name) == breed_name \in breeds_collection

\* PetSchema.validate_breed: a blank name raises ValidationError; the
\* ValidationError for a name without a breed document is raised inside the
\* try block and caught by its `except Exception`, which logs a warning.
validate_breed(value) == value # ""

NoRegistration == [exists |-> FALSE, breed |-> "", care_settings |-> FALSE]

\* No response yet.
NoResponse == [user_id |-> "none", breed |-> "", error_code |-> "none"]

InitRegistration ==
    /\ registry = [u \in Users |-> NoRegistration]
    /\ pet_settings = {}
    /\ pet_response = NoResponse

\* PetService.create_pet: ValueError for a breed the breed service does not
\* know, when there is a breed service; else one `set` of the pet document
\* with the generated care_settings inside it.
create_pet(reg, user_id, breed, set_ok) ==
    IF breed_service /\ ~breed_exists(breed)
    THEN [raised |-> TRUE, registry |-> reg]
    ELSE IF ~set_ok
    THEN [raised |-> TRUE, registry |-> reg]
    ELSE [raised |-> FALSE,
          registry |-> [reg EXCEPT ![user_id] =
                           [exists |-> TRUE, breed |-> breed, care_settings |-> TRUE]]]

\* POST /api/pets, the whole route.
register_pet_route(u, breed, set_ok) ==
    LET created == create_pet(registry, u, breed, set_ok) IN
    /\ IF registry[u].exists
       THEN /\ pet_response' = [user_id |-> u, breed |-> breed, error_code |-> "PET_ALREADY_EXISTS"]
            /\ UNCHANGED registry
       ELSE IF ~validate_breed(breed)
       THEN /\ pet_response' = [user_id |-> u, breed |-> breed, error_code |-> "VALIDATION_ERROR"]
            /\ UNCHANGED registry
       ELSE IF created.raised
       THEN /\ pet_response' = [user_id |-> u, breed |-> breed, error_code |-> "PET_CREATION_FAILED"]
            /\ UNCHANGED registry
       ELSE /\ pet_response' = [user_id |-> u, breed |-> breed, error_code |-> "201"]
            /\ registry' = created.registry
    /\ UNCHANGED <<pet_settings, breed_service>>
    /\ UNCHANGED notRegistration

\* GET /api/pet-care/<pet_id>/settings for the pet of user u.
get_pet_care_settings(u) ==
    /\ registry[u].exists
    /\ pet_response' = [user_id |-> u, breed |-> registry[u].breed,
                        error_code |-> IF u \in pet_settings THEN "200"
                                                             ELSE "SETTINGS_NOT_FOUND"]
    /\ UNCHANGED <<registry, pet_settings, breed_service>>
    /\ UNCHANGED notRegistration

NextRegistration ==
    \/ \E u \in Users, breed \in Breeds, set_ok \in BOOLEAN :
          register_pet_route(u, breed, set_ok)
    \/ \E u \in Users : get_pet_care_settings(u)


(***************************************************************************)
(* Posts, comments and likes: PostService, CommentService and the likes    *)
(* of MungstagramService, over Firestore transactions.                     *)
(***************************************************************************)
PostIds    == 1..MaxPosts
CommentIds == 1..MaxComments
Txns       == 1..MaxTxns

\* A document slot: never created, present, or deleted.  Ids are uuid4
\* values, so a deleted id is not handed out again.
NoDoc == [exists |-> FALSE, created |-> FALSE, author |-> "none", post_id |-> 0,
          like_count |-> 0, comment_count |-> 0]
DeletedDoc == [NoDoc EXCEPT !.created = TRUE]

\* The Post dataclass with its defaults.
Post(u) == [exists |-> TRUE, created |-> TRUE, author |-> u, post_id |-> 0,
            like_count |-> 0, comment_count |-> 0]

\* The Comment dataclass with its defaults.
Comment(u, p) == [exists |-> TRUE, created |-> TRUE, author |-> u, post_id |-> p,
                  like_count |-> 0, comment_count |-> 0]

\* like_id = f"post_{user_id}_{post_id}" and f"comment_{user_id}_{comment_id}";
\* user ids and uuids hold no underscore, so the three parts identify the id.
post_like_id(user_id, post_id) == <<"post", user_id, post_id>>
comment_like_id(user_id, comment_id) == <<"comment", user_id, comment_id>>

LikeIds == {post_like_id(u, p) : u \in Users, p \in PostIds}
               \cup {comment_like_id(u, c) : u \in Users, c \in CommentIds}

IdleTxn == [pc |-> "idle", op |-> "none", user_id |-> "none", target |-> 0,
            like |-> FALSE, doc |-> NoDoc]

InitSocial ==
    /\ posts = [p \in PostIds |-> NoDoc]
    /\ comments = [c \in CommentIds |-> NoDoc]
    /\ likes = {}
    /\ post_likes = {}
    /\ txn = [t \in Txns |-> IdleTxn]
    /\ social_notifications = EmptyBag
    /\ transactions = 0
    /\ applied = [l \in LikeIds |-> 0]
    /\ unlikes = 0
    /\ raced = {}

\* Firestore.Increment: the server adds the operand to the stored value.
Increment(value, n) == value + n

\* db.transaction() and the reads of the transactional function: the request
\* is served by the first free thread.
Begin(t, op, u, target, like, doc) ==
    /\ txn[t].pc = "idle"
    /\ \A s \in Txns : s < t => txn[s].pc # "idle"
    /\ transactions < MaxTransactions
    /\ transactions' = transactions + 1
    /\ txn' = [txn EXCEPT ![t] = [pc |-> "run", op |-> op, user_id |-> u,
                                  target |-> target, like |-> like, doc |-> doc]]

\* A variant in which a commit never checks what the transaction read.
UnchangedNotChecked(read, now) == TRUE

\* The commit succeeds only if the documents the transaction read are as it
\* read them.
Unchanged(read, now) == read = now

\* PostService.create_post
create_post(u) ==
    LET n == Cardinality({p \in PostIds : posts[p].created}) IN
    /\ n < MaxPosts
    /\ posts' = [posts EXCEPT ![n + 1] = Post(u)]
    /\ UNCHANGED <<comments, likes, post_likes, txn, social_notifications,
                   transactions, applied, unlikes, raced>>
    /\ UNCHANGED notSocial

\* PostService.delete_post: the author's post document is deleted; its
\* comments and likes stay.
delete_post(p, u) ==
    /\ posts[p].exists
    /\ posts[p].author = u
    /\ posts' = [posts EXCEPT ![p] = DeletedDoc]
    /\ UNCHANGED <<comments, likes, post_likes, txn, social_notifications,
                   transactions, applied, unlikes, raced>>
    /\ UNCHANGED notSocial

\* A transaction ends without committing: its commit met a conflict and the
\* attempts ran out, an update named a missing document, or the transactional
\* function raised.
txn_abort(t) ==
    /\ txn[t].pc = "run"
    /\ txn' = [txn EXCEPT ![t] = IdleTxn]
    /\ UNCHANGED <<posts, comments, likes, post_likes, social_notifications,
                   transactions, applied, unlikes, raced>>
    /\ UNCHANGED notSocial


\* CommentService._create_comment_transaction: the writes it stages.
create_comment_transaction == [comment |-> "set", comment_count |-> 1]

\* create_comment, up to the read of the post inside the transaction; a
\* missing post raises ValueError.
begin_create_comment(t, u, p) ==
    /\ posts[p].exists
    /\ Begin(t, "create_comment", u, p, FALSE, posts[p])
    /\ UNCHANGED <<posts, comments, likes, post_likes, social_notifications,
                   applied, unlikes, raced>>
    /\ UNCHANGED notSocial

\* CommentService._extract_mentions
extract_mentions(m, sender_id) == {u \in m : u # sender_id}

RECURSIVE notify_mentions(_, _, _, _)
notify_mentions(ns, ms, sender_id, post_id) ==
    IF ms = {} THEN ns
    ELSE LET u == CHOOSE x \in ms : TRUE IN
         notify_mentions(create_notification(ns, u, sender_id, "MENTION", post_id),
                         ms \ {u}, sender_id, post_id)

\* The commit of create_comment and the notifications sent after it; the
\* comment's text mentions the users in m.
commit_create_comment(t, m) ==
    LET p == txn[t].target
        u == txn[t].user_id
        n == Cardinality({c \in CommentIds : comments[c].created})
        w == create_comment_transaction IN
    /\ txn[t].pc = "run" /\ txn[t].op = "create_comment"
    /\ Unchanged(txn[t].doc, posts[p])
    /\ n < MaxComments
    /\ comments' = IF w.comment = "set" THEN [comments EXCEPT ![n + 1] = Comment(u, p)]
                                        ELSE comments
    /\ posts' = [posts EXCEPT ![p].comment_count = Increment(@, w.comment_count)]
    /\ social_notifications' =
          notify_mentions(create_notification(social_notifications, txn[t].doc.author,
                                              u, "COMMENT", p),
                          extract_mentions(m, u), u, p)
    /\ txn' = [txn EXCEPT ![t] = IdleTxn]
    /\ UNCHANGED <<likes, post_likes, transactions, applied, unlikes, raced>>
    /\ UNCHANGED notSocial

\* A variant that deletes the comment and leaves comment_count alone.
delete_comment_without_decrement == [comment |-> "delete", comment_count |-> 0]

\* CommentService._delete_comment_transaction: the writes it stages.
delete_comment_transaction == [comment |-> "delete", comment_count |-> -1]

\* delete_comment, up to the checks inside the transaction: a missing comment
\* raises ValueError, another user's comment PermissionError.
begin_delete_comment(t, u, c) ==
    /\ comments[c].exists
    /\ comments[c].author = u
    /\ Begin(t, "delete_comment", u, c, FALSE, comments[c])
    /\ UNCHANGED <<posts, comments, likes, post_likes, social_notifications,
                   applied, unlikes, raced>>
    /\ UNCHANGED notSocial

\* The commit of delete_comment; the update of a missing post fails it.
commit_delete_comment(t) ==
    LET c == txn[t].target
        p == txn[t].doc.post_id
        w == delete_comment_transaction IN
    /\ txn[t].pc = "run" /\ txn[t].op = "delete_comment"
    /\ Unchanged(txn[t].doc, comments[c])
    /\ posts[p].exists
    /\ comments' = IF w.comment = "delete" THEN [comments EXCEPT ![c] = DeletedDoc]
                                           ELSE comments
    /\ posts' = [posts EXCEPT ![p].comment_count = Increment(@, w.comment_count)]
    /\ txn' = [txn EXCEPT ![t] = IdleTxn]
    /\ UNCHANGED <<likes, post_likes, social_notifications, transactions, applied, unlikes, raced>>
    /\ UNCHANGED notSocial

\* A variant whose unlike branch leaves like_count alone.
toggle_like_without_decrement(like_exists) ==
    IF like_exists
    THEN [like |-> "delete", like_count |-> 0, is_liked |-> FALSE]
    ELSE [like |-> "set", like_count |-> 1, is_liked |-> TRUE]

\* PostService.toggle_post_like._update_in_transaction,
\* PostService._toggle_like_in_transaction and
\* CommentService._toggle_like_comment_transaction: the writes staged for a
\* like document that was read as present or absent.
toggle_like_in_transaction(like_exists) ==
    IF like_exists
    THEN [like |-> "delete", like_count |-> -1, is_liked |-> FALSE]
    ELSE [like |-> "set", like_count |-> 1, is_liked |-> TRUE]

\* A variant in which a staged delete leaves the like document in place.
WriteLikeWithoutDelete(ls, id, w) ==
    IF w.like = "set" THEN ls \cup {id} ELSE ls

\* The like collection after a staged set or delete.
WriteLike(ls, id, w) ==
    IF w.like = "set" THEN ls \cup {id}
    ELSE IF w.like = "delete" THEN ls \ {id}
    ELSE ls

\* Another transaction of the same user is toggling the same like document.
Racing(t, op, u, target) ==
    \E s \in Txns : s # t /\ txn[s].pc = "run" /\ txn[s].op = op
                          /\ txn[s].user_id = u /\ txn[s].target = target

\* toggle_post_like, up to the reads of the like and the post; a missing post
\* raises ValueError.
begin_toggle_post_like(t, u, p) ==
    /\ posts[p].exists
    /\ Begin(t, "toggle_post_like", u, p, post_like_id(u, p) \in likes, posts[p])
    /\ raced' = IF Racing(t, "toggle_post_like", u, p)
                THEN raced \cup {post_like_id(u, p)} ELSE raced
    /\ UNCHANGED <<posts, comments, likes, post_likes, social_notifications, applied, unlikes>>
    /\ UNCHANGED notSocial

\* The commit of toggle_post_like, and the POST_LIKE notification for a new
\* like.
commit_toggle_post_like(t) ==
    LET p == txn[t].target
        u == txn[t].user_id
        id == post_like_id(u, p)
        w == toggle_like_in_transaction(txn[t].like) IN
    /\ txn[t].pc = "run" /\ txn[t].op = "toggle_post_like"
    /\ Unchanged(<<txn[t].like, txn[t].doc>>, <<id \in likes, posts[p]>>)
    /\ likes' = WriteLike(likes, id, w)
    /\ posts' = [posts EXCEPT ![p].like_count = Increment(@, w.like_count)]
    /\ applied' = [applied EXCEPT ![id] = (@ + 1) % 2]
    /\ unlikes' = IF w.is_liked THEN unlikes ELSE unlikes + 1
    /\ social_notifications' =
          IF w.is_liked
          THEN create_notification(social_notifications, txn[t].doc.author, u,
                                   "POST_LIKE", p)
          ELSE social_notifications
    /\ txn' = [txn EXCEPT ![t] = IdleTxn]
    /\ UNCHANGED <<comments, post_likes, transactions, raced>>
    /\ UNCHANGED notSocial


\* toggle_comment_like, up to the reads of the like and the comment; a
\* missing comment raises ValueError.
begin_toggle_comment_like(t, u, c) ==
    /\ comments[c].exists
    /\ Begin(t, "toggle_comment_like", u, c, comment_like_id(u, c) \in likes,
             comments[c])
    /\ raced' = IF Racing(t, "toggle_comment_like", u, c)
                THEN raced \cup {comment_like_id(u, c)} ELSE raced
    /\ UNCHANGED <<posts, comments, likes, post_likes, social_notifications, applied, unlikes>>
    /\ UNCHANGED notSocial

\* The commit of toggle_comment_like, and the COMMENT_LIKE notification for
\* a new like.
commit_toggle_comment_like(t) ==
    LET c == txn[t].target
        u == txn[t].user_id
        id == comment_like_id(u, c)
        w == toggle_like_in_transaction(txn[t].like) IN
    /\ txn[t].pc = "run" /\ txn[t].op = "toggle_comment_like"
    /\ Unchanged(<<txn[t].like, txn[t].doc>>, <<id \in likes, comments[c]>>)
    /\ likes' = WriteLike(likes, id, w)
    /\ comments' = [comments EXCEPT ![c].like_count = Increment(@, w.like_count)]
    /\ applied' = [applied EXCEPT ![id] = (@ + 1) % 2]
    /\ unlikes' = IF w.is_liked THEN unlikes ELSE unlikes + 1
    /\ social_notifications' =
          IF w.is_liked
          THEN create_notification(social_notifications, txn[t].doc.author, u,
                                   "COMMENT_LIKE", c)
          ELSE social_notifications
    /\ txn' = [txn EXCEPT ![t] = IdleTxn]
    /\ UNCHANGED <<posts, post_likes, transactions, raced>>
    /\ UNCHANGED notSocial

\* MungstagramService.add_like._add_like_transaction: the writes staged when
\* the user's like document is absent.
add_like_transaction == [like |-> "set", like_count |-> 1]

\* MungstagramService._create_notification: the document is written for
\* whatever recipient the caller names.
_create_notification(ns, recipient_id, actor_id, notification_type, post_id) ==
    ns (+) SetToBag({[recipient_id |-> recipient_id, sender |-> actor_id,
                      type |-> notification_type, target_id |-> post_id]})

\* add_like, up to the end of the transactional function: a missing post
\* raises ValueError and an existing like returns at once.  The notification
\* is written from inside the function, outside the transaction's writes,
\* when the post's author is not the user.
begin_add_like(t, u, p) ==
    /\ posts[p].exists
    /\ <<p, u>> \notin post_likes
    /\ Begin(t, "add_like", u, p, FALSE, posts[p])
    /\ social_notifications' =
          IF posts[p].author # u
          THEN _create_notification(social_notifications, posts[p].author, u, "LIKE", p)
          ELSE social_notifications
    /\ UNCHANGED <<posts, comments, likes, post_likes, applied, unlikes, raced>>
    /\ UNCHANGED notSocial

\* The commit of add_like.  The function reads the post once more after its
\* writes; where the client rejects that read the transaction ends in
\* txn_abort instead.
commit_add_like(t) ==
    LET p == txn[t].target
        u == txn[t].user_id
        w == add_like_transaction IN
    /\ txn[t].pc = "run" /\ txn[t].op = "add_like"
    /\ Unchanged(<<txn[t].like, txn[t].doc>>, <<<<p, u>> \in post_likes, posts[p]>>)
    /\ post_likes' = WriteLike(post_likes, <<p, u>>, w)
    /\ posts' = [posts EXCEPT ![p].like_count = Increment(@, w.like_count)]
    /\ txn' = [txn EXCEPT ![t] = IdleTxn]
    /\ UNCHANGED <<comments, likes, social_notifications, transactions, applied, unlikes, raced>>
    /\ UNCHANGED notSocial

\* A variant that takes two from like_count.
remove_like_decrement_twice == [like |-> "delete", like_count |-> -2]

\* MungstagramService.remove_like._remove_like_transaction: the writes staged
\* when the user's like document is present.
remove_like_transaction == [like |-> "delete", like_count |-> -1]

\* remove_like, up to the read of the like; an absent like returns at once.
begin_remove_like(t, u, p) ==
    /\ <<p, u>> \in post_likes
    /\ Begin(t, "remove_like", u, p, TRUE, NoDoc)
    /\ UNCHANGED <<posts, comments, likes, post_likes, social_notifications,
                   applied, unlikes, raced>>
    /\ UNCHANGED notSocial

\* The commit of remove_like; the update of a missing post fails it.
commit_remove_like(t) ==
    LET p == txn[t].target
        u == txn[t].user_id
        w == remove_like_transaction IN
    /\ txn[t].pc = "run" /\ txn[t].op = "remove_like"
    /\ Unchanged(txn[t].like, <<p, u>> \in post_likes)
    /\ posts[p].exists
    /\ post_likes' = WriteLike(post_likes, <<p, u>>, w)
    /\ posts' = [posts EXCEPT ![p].like_count = Increment(@, w.like_count)]
    /\ unlikes' = unlikes + 1
    /\ txn' = [txn EXCEPT ![t] = IdleTxn]
    /\ UNCHANGED <<comments, likes, social_notifications, transactions, applied, raced>>
    /\ UNCHANGED notSocial

NextSocial ==
    \/ \E u \in Users : create_post(u)
    \/ \E p \in PostIds, u \in Users : delete_post(p, u)
    \/ \E t \in Txns : txn_abort(t)
    \/ \E t \in Txns, u \in Users, p \in PostIds : begin_create_comment(t, u, p)
    \/ \E t \in Txns, m \in SUBSET Users : commit_create_comment(t, m)
    \/ \E t \in Txns, u \in Users, c \in CommentIds : begin_delete_comment(t, u, c)
    \/ \E t \in Txns : commit_delete_comment(t)
    \/ \E t \in Txns, u \in Users, p \in PostIds : begin_toggle_post_like(t, u, p)
    \/ \E t \in Txns : commit_toggle_post_like(t)
    \/ \E t \in Txns, u \in Users, c \in CommentIds : begin_toggle_comment_like(t, u, c)
    \/ \E t \in Txns : commit_toggle_comment_like(t)
    \/ \E t \in Txns, u \in Users, p \in PostIds : begin_add_like(t, u, p)
    \/ \E t \in Txns : commit_add_like(t)
    \/ \E t \in Txns, u \in Users, p \in PostIds : begin_remove_like(t, u, p)
    \/ \E t \in Txns : commit_remove_like(t)


(***************************************************************************)
(* Properties of the job orchestrator.                                     *)
(***************************************************************************)
FSMEdges == {<<PROCESSING, CANCELING>>, <<PROCESSING, COMPLETED>>,
             <<PROCESSING, FAILED>>, <<CANCELING, FAILED>>}

\* C1: for every CartoonJob, under any interleaving of cancel requests
\* with the worker's completion/failure writes, the successive values of
\* status form a path of the FSM PROCESSING -> {CANCELING, COMPLETED,
\* FAILED}, CANCELING -> FAILED: nothing follows COMPLETED or FAILED and
\* no value is revisited.
C1_StatusFollowsFSM ==
    \A j \in JobIds :
        jobs[j].exists =>
            /\ trail[j][1] = PROCESSING
            /\ \A i \in 1..(Len(trail[j]) - 1) :
                   <<trail[j][i], trail[j][i + 1]>> \in FSMEdges

\* C8: a cancel request writes CANCELING only when the caller owns the
\* job and the status at the moment of the write is PROCESSING; a cancel
\* request by the owner on a job that is not PROCESSING is answered 409
\* and leaves the job document unchanged.
C8_CancelOnlyFromProcessing ==
    [][\A r \in Reqs :
          /\ cancel_update(r) =>
                /\ jobs[req[r].job].status = PROCESSING
                /\ jobs[req[r].job].user_id = req[r].caller
          /\ \A u \in Users, j \in JobIds :
                (/\ cancel_read(r, u, j)
                 /\ jobs[j].exists
                 /\ jobs[j].user_id = u
                 /\ jobs[j].status # PROCESSING)
                    => (resp'.code = 409 /\ jobs' = jobs)]_vars

\* C9: a job moved to CANCELING before its worker picked it up ends, once
\* the worker is done, in FAILED with error_message "canceled by user"
\* (never COMPLETED), and a CARTOON_FAILED notification was sent to its
\* owner.
C9_EarlyCancelEndsFailed ==
    \A j \in early_cancel :
        wpc[j] = "done" =>
            /\ jobs[j].status = FAILED
            /\ jobs[j].error_message = "canceled by user"
            /\ \E n \in BagToSet(notifications) :
                   /\ n.type = "CARTOON_FAILED"
                   /\ n.recipient_id = jobs[j].user_id
                   /\ n.target_id = j

\* The response each owner-scoped operation gives for a job id that does
\* not exist.
MissingJobResponse(op) ==
    IF op = "get"
    THEN [code |-> 404, error_code |-> "JOB_NOT_FOUND_OR_FORBIDDEN"]
    ELSE cancel_error_response(cancel_check(NoJob, "u1"))

\* C10: for get_job and cancel, a caller who is not job.user_id gets
\* NotFound, never Forbidden: the very response of a job id that does not
\* exist.
C10_NonOwnerSeesNotFound ==
    (/\ resp.op \in {"get", "cancel"}
     /\ resp.existed
     /\ jobs[resp.job].user_id # resp.caller)
        => /\ resp.code = 404
           /\ resp.error_code = MissingJobResponse(resp.op).error_code


(***************************************************************************)
(* Properties of nose-print admission.                                     *)
(***************************************************************************)
\* The admissions that hold an id handed out by process_image.
HoldsId(a) == adm[a].pc \in {"update", "add"}

\* C3: concurrent admissions on different pets are never assigned the same
\* ordinal id, and no two verified pets carry the same faiss_id.
C3_NoSharedOrdinalId ==
    /\ \A a, b \in Adms :
        (HoldsId(a) /\ HoldsId(b) /\ adm[a].pet # adm[b].pet)
            => adm[a].faiss_id # adm[b].faiss_id
    /\ \A p, q \in PetIds :
        (p # q /\ pets[p].is_verified /\ pets[q].is_verified)
            => pets[p].faiss_id # pets[q].faiss_id

\* C6: in every state each pet is verified exactly when both its faiss_id
\* and its nose_print_url are set.
C6_VerifiedIffIdAndUrl ==
    \A p \in PetIds :
        pets[p].exists =>
            (pets[p].is_verified <=>
                (pets[p].faiss_id # None /\ pets[p].nose_print_url # "None"))

\* An admission wrote the pet and then failed in add_vector_to_index, and no
\* admission is in flight.
C6_Witness ==
    /\ \A a \in Adms : adm[a].pc = "idle"
    /\ \E p \in PetIds :
        /\ pets[p].is_verified
        /\ \A x \in admitted : x.pet # p

\* C7: a pet whose admission returned SUCCESS is verified and its faiss_id
\* is a position of the index, in every later state.
C7_AdmittedPetInIndex ==
    \A x \in admitted :
        /\ pets[x.pet].is_verified
        /\ pets[x.pet].faiss_id >= 0
        /\ pets[x.pet].faiss_id < Len(faiss_index)


(***************************************************************************)
(* The notifications of one comment: CommentService.create_comment after  *)
(* its transaction committed, with _extract_mentions.                      *)
(***************************************************************************)
\* Nicknames of users: AuthService takes the Google account's name, which
\* two accounts can share.
Nicknames == {"kim", "lee"}

\* Names that follow an @ in a comment; nobody is called "zed".
MentionNames == Nicknames \cup {"zed"}

Texts == UNION {[1..n -> MentionNames] : n \in 0..MaxMentions}

\* set(re.findall(r'@(\w+)', text))
findall_mentions(text) == {text[i] : i \in DOMAIN text}

\* users_ref.where('nickname', '==', nickname)
where_nickname(nickname_of, nickname) == {u \in Users : nickname_of[u] = nickname}

\* .limit(1).stream() and next(query, None) for every mentioned nickname: one
\* of the users of that nickname, or none when there is no such user.
Resolutions(nickname_of, names) ==
    {r \in [names -> Users \cup {"none"}] :
        \A n \in names :
            IF where_nickname(nickname_of, n) = {} THEN r[n] = "none"
            ELSE r[n] \in where_nickname(nickname_of, n)}

NotRun == [recipient_id |-> "none", sender |-> "none", type |-> "none", target_id |-> 0]

IdleMention == [nickname_of |-> [u \in Users |-> "kim"], text |-> <<>>,
                author_id |-> "u1", post_author_id |-> "u1", result |-> SetToBag({NotRun})]

InitMention ==
    mention_run \in [nickname_of : [Users -> Nicknames], text : Texts,
                     author_id : Users, post_author_id : Users,
                     result : {SetToBag({NotRun})}]

\* create_comment from the committed transaction on: the COMMENT notification,
\* then one MENTION notification per user id _extract_mentions returns.
run_create_comment ==
    /\ mention_run.result = SetToBag({NotRun})
    /\ \E r \in Resolutions(mention_run.nickname_of, findall_mentions(mention_run.text)) :
          LET user_docs == {r[n] : n \in DOMAIN r} \ {"none"} IN
          mention_run' =
             [mention_run EXCEPT !.result =
                 notify_mentions(
                     create_notification(EmptyBag, mention_run.post_author_id,
                                         mention_run.author_id, "COMMENT", 1),
                     extract_mentions(user_docs, mention_run.author_id),
                     mention_run.author_id, 1)]
    /\ UNCHANGED notMention

NextMention == run_create_comment


(***************************************************************************)
(* Editing and deleting posts: PostService.update_post and delete_post of  *)
(* both trees, with the media blobs of the bucket.                         *)
(***************************************************************************)
PostTexts == {"a", "b"}

NoPost == [exists |-> FALSE, created |-> FALSE, author |-> "none", text |-> "",
           image_urls |-> {}, like_count |-> 0, comment_count |-> 0,
           created_at |-> 0, updated_at |-> 0]

NoRequest == [op |-> "none", user_id |-> "none", post_id |-> 0, status |-> "none"]

\* No delete_post call is between its two writes.
NoDeletion == [user_id |-> "none", post_id |-> 0]

InitPosts ==
    /\ post_docs = [p \in PostIds |-> NoPost]
    /\ blobs = {}
    /\ clock = 0
    /\ deleting = NoDeletion
    /\ post_response = NoRequest

\* create_post: the media were uploaded before, the document names them.
create_post_with_media(u, text) ==
    LET n == Cardinality({p \in PostIds : post_docs[p].created}) IN
    /\ n < MaxPosts
    /\ post_docs' = [post_docs EXCEPT ![n + 1] =
                        [exists |-> TRUE, created |-> TRUE, author |-> u, text |-> text,
                         image_urls |-> {n + 1}, like_count |-> 0, comment_count |-> 0,
                         created_at |-> clock, updated_at |-> clock]]
    /\ blobs' = blobs \cup {n + 1}
    /\ post_response' = [op |-> "create_post", user_id |-> u, post_id |-> n + 1,
                         status |-> "created"]
    /\ UNCHANGED <<clock, deleting>>
    /\ UNCHANGED notPosts

\* A variant that takes every user for the author.
is_anyone(doc, user_id) == doc.exists

\* doc.exists and doc.to_dict().get('author', {}).get('user_id') == user_id
is_author(doc, user_id) == doc.exists /\ doc.author = user_id

\* update_data = {"text": text, "updated_at": datetime.now()}
post_update_data(doc, text, at) == [doc EXCEPT !.text = text, !.updated_at = at]

\* update_post: a missing post or another user's post is refused (None in one
\* tree, PermissionError in the other); else text and updated_at are written.
update_post(p, u, text) ==
    /\ clock < MaxClock
    /\ clock' = clock + 1
    /\ IF is_author(post_docs[p], u)
       THEN /\ post_docs' = [post_docs EXCEPT ![p] = post_update_data(@, text, clock')]
            /\ post_response' = [op |-> "update_post", user_id |-> u, post_id |-> p,
                                 status |-> "updated"]
       ELSE /\ UNCHANGED post_docs
            /\ post_response' = [op |-> "update_post", user_id |-> u, post_id |-> p,
                                 status |-> "refused"]
    /\ UNCHANGED <<blobs, deleting>>
    /\ UNCHANGED notPosts

\* delete_post, up to the end of its loop over image_urls: a missing post or
\* another user's post is refused; else each blob is deleted, a failure
\* being logged and passed over.  No transaction is open: other requests run
\* between the loop and the delete of the document.
delete_post_with_media(p, u, deleted) ==
    /\ deleting = NoDeletion
    /\ deleted \subseteq post_docs[p].image_urls
    /\ IF is_author(post_docs[p], u)
       THEN /\ blobs' = blobs \ deleted
            /\ deleting' = [user_id |-> u, post_id |-> p]
            /\ post_response' = [op |-> "delete_post", user_id |-> u, post_id |-> p,
                                 status |-> "deleting"]
       ELSE /\ deleted = {}
            /\ UNCHANGED <<blobs, deleting>>
            /\ post_response' = [op |-> "delete_post", user_id |-> u, post_id |-> p,
                                 status |-> "refused"]
    /\ UNCHANGED <<post_docs, clock>>
    /\ UNCHANGED notPosts

\* post_ref.delete() and the return of delete_post; when the delete raises
\* the document stays and the route answers with an error.
delete_post_document(ok) ==
    /\ deleting # NoDeletion
    /\ post_docs' = IF ok THEN [post_docs EXCEPT ![deleting.post_id] =
                                   [NoPost EXCEPT !.created = TRUE]]
                          ELSE post_docs
    /\ post_response' = [op |-> "delete_post", user_id |-> deleting.user_id,
                         post_id |-> deleting.post_id,
                         status |-> IF ok THEN "deleted" ELSE "error"]
    /\ deleting' = NoDeletion
    /\ UNCHANGED <<blobs, clock>>
    /\ UNCHANGED notPosts

NextPosts ==
    \/ \E u \in Users, text \in PostTexts : create_post_with_media(u, text)
    \/ \E p \in PostIds, u \in Users, text \in PostTexts : update_post(p, u, text)
    \/ \E p \in PostIds, u \in Users, deleted \in SUBSET PostIds :
          delete_post_with_media(p, u, deleted)
    \/ \E ok \in BOOLEAN : delete_post_document(ok)


(***************************************************************************)
(* DateTimeUtils.for_firestore on nested dicts and lists.                  *)
(***************************************************************************)
\* Days from date.min to date.max; a datetime is a day and a half of it.
Days == 0..MaxDay

Halves == {0, 1}

\* utcoffset() of an aware datetime, in half days.
Offsets == {-1, 0, 1}

\* Half days since datetime.min.
Instant(dt) == 2 * dt.day + dt.half

Dates == [kind : {"date"}, day : Days]

NaiveDatetimes ==
    [kind : {"datetime"}, day : Days, half : Halves, aware : {FALSE}, offset : {0}]

AwareDatetimes ==
    [kind : {"datetime"}, day : Days, half : Halves, aware : {TRUE}, offset : Offsets]

\* Leaves that are neither date nor datetime.
OtherLeaves == {[kind |-> "str", v |-> "x"]}

Leaves == Dates \cup NaiveDatetimes \cup AwareDatetimes \cup OtherLeaves

Keys == {"a", "b"}

ListOf(values, lens) ==
    [kind : {"list"}, elems : UNION {[1..n -> values] : n \in lens}]

DictOf(values, keysets) ==
    [kind : {"dict"}, entries : UNION {[ks -> values] : ks \in keysets}]

\* Dicts and lists of leaves, and dicts and lists of those.
Flat == ListOf(Leaves, {0, 1, 2}) \cup DictOf(Leaves, SUBSET Keys)

Nested == ListOf(Leaves \cup Flat, {1}) \cup DictOf(Leaves \cup Flat, {{"a"}})

Objects == Leaves \cup Flat \cup Nested

\* The ValueError of the except clause.
Raised == [kind |-> "ValueError"]

NotConverted == [kind |-> "none"]

\* datetime.combine(obj, time.min).replace(tzinfo=timezone.utc)
combine_utc(obj) ==
    [kind |-> "datetime", day |-> obj.day, half |-> 0, aware |-> TRUE, offset |-> 0]

\* obj.astimezone(timezone.utc): OverflowError when the UTC value is before
\* datetime.min or after datetime.max.
astimezone_utc(obj) ==
    LET utc == Instant(obj) - obj.offset IN
    IF utc < 0 \/ utc > 2 * MaxDay + 1
    THEN Raised
    ELSE [kind |-> "datetime", day |-> utc \div 2, half |-> utc % 2,
          aware |-> TRUE, offset |-> 0]

\* A variant that returns a naive datetime as it is.
convert_datetime_keep_naive(obj) ==
    IF ~obj.aware THEN obj ELSE astimezone_utc(obj)

\* The datetime branch: tzinfo is set for a naive value, an aware value is
\* moved to UTC.
convert_datetime(obj) ==
    IF ~obj.aware THEN [obj EXCEPT !.aware = TRUE] ELSE astimezone_utc(obj)

RECURSIVE for_firestore(_)
for_firestore(obj) ==
    IF obj.kind = "date" THEN combine_utc(obj)
    ELSE IF obj.kind = "datetime" THEN convert_datetime(obj)
    ELSE IF obj.kind = "dict"
    THEN LET r == [k \in DOMAIN obj.entries |-> for_firestore(obj.entries[k])] IN
         IF \E k \in DOMAIN r : r[k] = Raised THEN Raised
         ELSE [kind |-> "dict", entries |-> r]
    ELSE IF obj.kind = "list"
    THEN LET r == [i \in DOMAIN obj.elems |-> for_firestore(obj.elems[i])] IN
         IF \E i \in DOMAIN r : r[i] = Raised THEN Raised
         ELSE [kind |-> "list", elems |-> r]
    ELSE obj

IdleConversion == [obj |-> [kind |-> "str", v |-> "x"], converted |-> NotConverted]

InitConversion == conversion \in [obj : Objects, converted : {NotConverted}]

run_for_firestore ==
    /\ conversion.converted = NotConverted
    /\ conversion' = [conversion EXCEPT !.converted = for_firestore(conversion.obj)]
    /\ UNCHANGED notConversion

NextConversion == run_for_firestore

(***************************************************************************)
(* The threads of POST /api/cartoon-jobs.  create_cartoon_job registers    *)
(* the job and starts one daemon thread for it before it answers 202.      *)
(***************************************************************************)
ThreadIds == 1..MaxThreads

\* The threads started so far, in the order of their submissions.
InitThreads ==
    /\ threads = << >>
    /\ submit_code = 0

\* threading.Thread(target=process_cartoon_in_background, ...).start():
\* the thread runs from the moment it is started.
thread_start(ts, job_id) == Append(ts, [job_id |-> job_id, pc |-> "generating"])

\* The route: a body that fails validation is answered 400 and starts
\* nothing; otherwise the job is registered, its thread started, 202.
submit_cartoon_job(valid) ==
    /\ Len(threads) < MaxThreads
    /\ IF valid
       THEN /\ threads' = thread_start(threads, Len(threads) + 1)
            /\ submit_code' = 202
       ELSE /\ threads' = threads
            /\ submit_code' = 400
    /\ UNCHANGED notThreads

\* process_cartoon_in_background: generate_cartoon has returned or raised.
thread_generated(i) ==
    /\ i \in DOMAIN threads
    /\ threads[i].pc = "generating"
    /\ threads' = [threads EXCEPT ![i].pc = "finalizing"]
    /\ UNCHANGED submit_code
    /\ UNCHANGED notThreads

\* process_cartoon_in_background returns and the thread ends.
thread_ended(i) ==
    /\ i \in DOMAIN threads
    /\ threads[i].pc = "finalizing"
    /\ threads' = [threads EXCEPT ![i].pc = "ended"]
    /\ UNCHANGED submit_code
    /\ UNCHANGED notThreads

\* The jobs whose pipeline is running.
running_jobs == {i \in DOMAIN threads : threads[i].pc \in {"generating", "finalizing"}}

NextThreads ==
    \/ \E valid \in BOOLEAN : submit_cartoon_job(valid)
    \/ \E i \in ThreadIds : thread_generated(i)
    \/ \E i \in ThreadIds : thread_ended(i)

(***************************************************************************)
(* Tokens: social login, POST /api/auth/token/refresh, POST                *)
(* /api/auth/logout, a route under @jwt_required(), and the revoked_tokens *)
(* collection of AuthService.                                              *)
(***************************************************************************)
\* The jti of a token is its position in the order of issue.
Jtis == 1..MaxTokens

NoAuthResponse == [op |-> "none", jti |-> 0, code |-> 0]

InitAuth ==
    /\ tokens = << >>
    /\ revoked_tokens = {}
    /\ logged_out = {}
    /\ auth_response = NoAuthResponse

create_access_token(ts, identity) == Append(ts, [type |-> "access", identity |-> identity])

create_refresh_token(ts, identity) == Append(ts, [type |-> "refresh", identity |-> identity])

\* create_app calls JWTManager(app) and registers no token_in_blocklist_loader:
\* is_token_revoked is never called.
token_in_blocklist_loader == "not registered"

\* AuthService.is_token_revoked
is_token_revoked(jti) == jti \in revoked_tokens

\* The checks of @jwt_required on a signed, unexpired token: its type, and
\* the blocklist callback when one is registered.
jwt_required(jti, refresh) ==
    /\ jti \in DOMAIN tokens
    /\ tokens[jti].type = (IF refresh THEN "refresh" ELSE "access")
    /\ (token_in_blocklist_loader = "is_token_revoked" => ~is_token_revoked(jti))

\* social_login: an access token and a refresh token for the user.
social_login(u) ==
    /\ Len(tokens) + 2 <= MaxTokens
    /\ tokens' = create_refresh_token(create_access_token(tokens, u), u)
    /\ auth_response' = [op |-> "login", jti |-> Len(tokens) + 1, code |-> 200]
    /\ UNCHANGED <<revoked_tokens, logged_out>>
    /\ UNCHANGED notAuth

\* refresh_token: a new access token for the identity of the refresh token.
refresh_token(jti) ==
    /\ jti \in DOMAIN tokens
    /\ IF jwt_required(jti, TRUE) /\ Len(tokens) < MaxTokens
       THEN /\ tokens' = create_access_token(tokens, tokens[jti].identity)
            /\ auth_response' = [op |-> "refresh", jti |-> jti, code |-> 200]
       ELSE /\ jwt_required(jti, TRUE) = FALSE
            /\ tokens' = tokens
            /\ auth_response' = [op |-> "refresh", jti |-> jti, code |-> 401]
    /\ UNCHANGED <<revoked_tokens, logged_out>>
    /\ UNCHANGED notAuth

\* Any route under @jwt_required().
protected_request(jti) ==
    /\ jti \in DOMAIN tokens
    /\ auth_response' = [op |-> "request", jti |-> jti,
                         code |-> IF jwt_required(jti, FALSE) THEN 200 ELSE 401]
    /\ UNCHANGED <<tokens, revoked_tokens, logged_out>>
    /\ UNCHANGED notAuth

\* AuthService.add_token_to_blocklist: the document is set; an exception of
\* the write is logged and not raised.
add_token_to_blocklist(rs, jti, set_ok) == IF set_ok THEN rs \cup {jti} ELSE rs

\* logout: both tokens of the body are decoded (any two signed tokens, of
\* either type, expired or not), logout_user adds both jti, 200.
logout(access_jti, refresh_jti, access_ok, refresh_ok) ==
    /\ access_jti \in DOMAIN tokens
    /\ refresh_jti \in DOMAIN tokens
    /\ revoked_tokens' =
          add_token_to_blocklist(add_token_to_blocklist(revoked_tokens, access_jti, access_ok),
                                 refresh_jti, refresh_ok)
    /\ logged_out' = logged_out \cup {access_jti, refresh_jti}
    /\ auth_response' = [op |-> "logout", jti |-> access_jti, code |-> 200]
    /\ UNCHANGED tokens
    /\ UNCHANGED notAuth

NextAuth ==
    \/ \E u \in Users : social_login(u)
    \/ \E jti \in Jtis : refresh_token(jti)
    \/ \E jti \in Jtis : protected_request(jti)
    \/ \E a \in Jtis, r \in Jtis, access_ok \in BOOLEAN, refresh_ok \in BOOLEAN :
          logout(a, r, access_ok, refresh_ok)

(***************************************************************************)
(* Cursor paging of the care records: PetCareRecordService                 *)
(* .get_records_by_type and get_records_flexible, followed page by page    *)
(* over a collection that does not change.                                 *)
(***************************************************************************)
RecordTypes == {"weight", "meal"}

\* The record documents of one pet: the id of a document is also its
\* timestamp.
RecordIds == 1..MaxRecords

NoCursor == 0

RECURSIVE descending(_)
\* The ids of a set, highest first: order_by('timestamp', DESCENDING).
descending(ids) ==
    IF ids = {} THEN << >>
    ELSE LET m == CHOOSE x \in ids : \A y \in ids : y <= x IN
         <<m>> \o descending(ids \ {m})

\* where('record_type', '==', record_type), ordered.
matching_query(docs, record_type) ==
    descending({i \in DOMAIN docs : docs[i] = record_type})

\* query.start_after(cursor_doc): the documents of the query after the
\* cursor document; without a cursor, or when the cursor document does not
\* exist, the whole query.
start_after(query, docs, cursor) ==
    IF cursor = NoCursor \/ cursor \notin DOMAIN docs THEN query
    ELSE SelectSeq(query, LAMBDA i : i < cursor)

\* query.limit(n).stream()
stream_limit(query, n) == SubSeq(query, 1, IF Len(query) < n THEN Len(query) ELSE n)

\* last_doc is the document at which the loop breaks, the one after the
\* page; next_cursor = last_doc.id if last_doc else None.
next_cursor_of(streamed, page_limit) ==
    IF Len(streamed) > page_limit THEN streamed[page_limit + 1] ELSE NoCursor

\* One call of get_records_by_type: the records of the page and the meta
\* fields next_cursor and has_more.
get_records_by_type(docs, record_type, page_limit, cursor) ==
    LET streamed == stream_limit(start_after(matching_query(docs, record_type), docs, cursor),
                                 page_limit + 1)
        records == SubSeq(streamed, 1,
                          IF Len(streamed) < page_limit THEN Len(streamed) ELSE page_limit)
        next_cursor == next_cursor_of(streamed, page_limit) IN
    [records |-> records, next_cursor |-> next_cursor,
     has_more |-> Len(records) = page_limit /\ next_cursor # NoCursor]

NoPaging == [docs |-> << >>, record_type |-> "weight", page_limit |-> 1,
             cursor |-> NoCursor, returned |-> << >>, pages |-> 0, has_more |-> TRUE]

\* Any collection, any type asked for, any page size; no page fetched yet.
InitPaging ==
    paging \in [docs : UNION {[1..n -> RecordTypes] : n \in 0..MaxRecords},
                record_type : RecordTypes, page_limit : 1..MaxLimit,
                cursor : {NoCursor}, returned : {<< >>}, pages : {0}, has_more : {TRUE}]

\* The client fetches the next page with the cursor of the last answer.
fetch_page ==
    LET r == get_records_by_type(paging.docs, paging.record_type, paging.page_limit,
                                 paging.cursor) IN
    /\ paging.has_more
    /\ paging' = [paging EXCEPT !.returned = @ \o r.records,
                                !.cursor = r.next_cursor,
                                !.pages = @ + 1,
                                !.has_more = r.has_more]
    /\ UNCHANGED notPaging

NextPaging == fetch_page

(***************************************************************************)
(* Concurrent POST /api/pets: the route asks get_pet_by_user_id, validates *)
(* the body and then calls create_pet, which sets a document under a new   *)
(* uuid.  Each request runs on a server thread of its own.                 *)
(***************************************************************************)
RegThreads == 1..MaxRegThreads

IdleReg == [pc |-> "idle", user_id |-> "none"]

NoRegResponse == [user_id |-> "none", code |-> 0, error_code |-> "none"]

InitRegThreads ==
    /\ pet_collection = << >>
    /\ reg_threads = [r \in RegThreads |-> IdleReg]
    /\ reg_count = 0
    /\ reg_response = NoRegResponse

\* pets_ref.where('user_id', '==', user_id).limit(1).stream(): is there a
\* document of the user.
pet_of_user_exists(docs, user_id) == \E i \in DOMAIN docs : docs[i] = user_id

\* The route up to the call of create_pet: 409 when the user has a pet, 400
\* when the body fails PetSchema; otherwise the Pet object is built.
register_pet_check(r, u, valid) ==
    /\ reg_threads[r].pc = "idle"
    /\ \A s \in RegThreads : s < r => reg_threads[s].pc # "idle"
    /\ reg_count < MaxRegistrations
    /\ reg_count' = reg_count + 1
    /\ IF pet_of_user_exists(pet_collection, u)
       THEN /\ reg_response' = [user_id |-> u, code |-> 409,
                                error_code |-> "PET_ALREADY_EXISTS"]
            /\ UNCHANGED reg_threads
       ELSE IF ~valid
       THEN /\ reg_response' = [user_id |-> u, code |-> 400,
                                error_code |-> "VALIDATION_ERROR"]
            /\ UNCHANGED reg_threads
       ELSE /\ reg_threads' = [reg_threads EXCEPT ![r] = [pc |-> "create", user_id |-> u]]
            /\ UNCHANGED reg_response
    /\ UNCHANGED pet_collection
    /\ UNCHANGED notRegThreads

\* PetService.create_pet: pets_ref.document(new_pet.pet_id).set(...), with
\* pet_id a fresh uuid4; an exception is answered 500.
register_pet_create(r, set_ok) ==
    /\ reg_threads[r].pc = "create"
    /\ IF set_ok
       THEN /\ pet_collection' = Append(pet_collection, reg_threads[r].user_id)
            /\ reg_response' = [user_id |-> reg_threads[r].user_id, code |-> 201,
                                error_code |-> "none"]
       ELSE /\ UNCHANGED pet_collection
            /\ reg_response' = [user_id |-> reg_threads[r].user_id, code |-> 500,
                                error_code |-> "PET_CREATION_FAILED"]
    /\ reg_threads' = [reg_threads EXCEPT ![r] = IdleReg]
    /\ UNCHANGED reg_count
    /\ UNCHANGED notRegThreads

NextRegThreads ==
    \/ \E r \in RegThreads, u \in Users, valid \in BOOLEAN : register_pet_check(r, u, valid)
    \/ \E r \in RegThreads, set_ok \in BOOLEAN : register_pet_create(r, set_ok)

(***************************************************************************)
(* The thread of a job keeps running once it has been started: a step of   *)
(* process_cartoon_in_background that can be taken is taken.  The external *)
(* generation call returns or raises (generate_cartoon turns both into a   *)
(* result).  Requests are under no such obligation.                        *)
(***************************************************************************)
WorkerStep(j) ==
    \/ \E success \in BOOLEAN : generate_cartoon(j, success)
    \/ complete_cartoon_job_with_post(j)
    \/ complete_raises(j)
    \/ fail_cartoon_job_with_notification(j)
    \/ fail_raises(j)

WorkerFairness == \A j \in JobIds : WF_vars(WorkerStep(j))

(***************************************************************************)
(* Pet care: POST /api/pet-care/<pet_id>/records and PUT                   *)
(* /api/pet-care/<pet_id>/settings, with PetCareRecordService and          *)
(* PetCareSettingService.                                                  *)
(***************************************************************************)
CarePets == {1, 2}

SettingValues == {"s1", "s2"}

NoCareResponse == [op |-> "none", caller |-> "none", pet_id |-> 0, code |-> 0]

\* The pets and their owners ("none": no such pet); no pet_settings document
\* exists, as no call of create_initial_settings_transactional is made.
InitCare ==
    /\ care_owner \in [CarePets -> Users \cup {"none"}]
    /\ care_settings = [p \in CarePets |-> "none"]
    /\ care_logs = << >>
    /\ care_response = NoCareResponse

\* PetCareRecordService.create_care_record: a PetCareLog with the pet_id of
\* the URL is set under a new uuid.
care_record_set(logs, pet_id) == Append(logs, pet_id)

\* The route create_care_record: the token is required, the body is
\* validated, and the record is created for the pet_id of the URL.
create_care_record(u, p, valid) ==
    /\ Len(care_logs) < MaxLogs
    /\ IF valid
       THEN /\ care_logs' = care_record_set(care_logs, p)
            /\ care_response' = [op |-> "create_care_record", caller |-> u,
                                 pet_id |-> p, code |-> 201]
       ELSE /\ UNCHANGED care_logs
            /\ care_response' = [op |-> "create_care_record", caller |-> u,
                                 pet_id |-> p, code |-> 400]
    /\ UNCHANGED <<care_owner, care_settings>>
    /\ UNCHANGED notCare

\* PetCareSettingService.update_settings: FileNotFoundError when the pet has
\* no settings document, else the document is updated.
update_settings(settings, pet_id, new_settings) ==
    IF settings[pet_id] = "none" THEN settings
    ELSE [settings EXCEPT ![pet_id] = new_settings]

\* The route update_pet_care_settings.
update_pet_care_settings(u, p, new_settings) ==
    /\ care_settings' = update_settings(care_settings, p, new_settings)
    /\ care_response' = [op |-> "update_pet_care_settings", caller |-> u, pet_id |-> p,
                         code |-> IF care_settings[p] = "none" THEN 404 ELSE 200]
    /\ UNCHANGED <<care_owner, care_logs>>
    /\ UNCHANGED notCare

NextCare ==
    \/ \E u \in Users, p \in CarePets, valid \in BOOLEAN : create_care_record(u, p, valid)
    \/ \E u \in Users, p \in CarePets, d \in SettingValues :
          update_pet_care_settings(u, p, d)

(***************************************************************************)
(* Properties of posts, comments and likes.                                *)
(***************************************************************************)
\* The Like documents whose subject is post p, in either collection.
LikesOfPost(p) ==
    Cardinality({u \in Users : post_like_id(u, p) \in likes})
        + Cardinality({u \in Users : <<p, u>> \in post_likes})

LikesOfComment(c) == Cardinality({u \in Users : comment_like_id(u, c) \in likes})

\* C2: whatever the interleaving of like toggles, every existing post and
\* every existing comment has like_count equal to the number of its Like
\* documents.
C2_LikeCountMatchesLikes ==
    /\ \A p \in PostIds : posts[p].exists => posts[p].like_count = LikesOfPost(p)
    /\ \A c \in CommentIds :
          comments[c].exists => comments[c].like_count = LikesOfComment(c)

\* Two users' likes on one post have both committed.
C2_Witness == \E p \in PostIds : posts[p].exists /\ posts[p].like_count = 2

\* No like transaction on post p is in flight.
Settled(p) ==
    \A t \in Txns :
        ~(/\ txn[t].pc = "run"
          /\ txn[t].op \in {"toggle_post_like", "add_like", "remove_like"}
          /\ txn[t].target = p)

\* No Like document of post p belongs to anyone but user u's toggle.
OnlyLiker(u, p) ==
    /\ \A v \in Users \ {u} : post_like_id(v, p) \notin likes
    /\ \A v \in Users : <<p, v>> \notin post_likes

C5_CommentCountMatchesComments ==
    \A p \in PostIds :
        posts[p].exists =>
            posts[p].comment_count =
                Cardinality({c \in CommentIds :
                                comments[c].exists /\ comments[c].post_id = p})

\* A comment was created and deleted again on a post that still exists.
C5_Witness ==
    /\ \E c \in CommentIds : comments[c] = DeletedDoc
    /\ \E p \in PostIds : posts[p].exists

\* C15: like_count of a post is never negative, and every step that lowers
\* the like_count of a post that stays in place leaves max(0, prior - 1).
C15_LikeCountNeverNegative ==
    /\ [](\A p \in PostIds : posts[p].like_count >= 0)
    /\ [][\A p \in PostIds :
            (posts'[p].exists /\ posts'[p].like_count < posts[p].like_count)
            => posts'[p].like_count
                  = (IF posts[p].like_count - 1 > 0 THEN posts[p].like_count - 1 ELSE 0)]_vars

\* A like of another user's post through add_like was taken back by
\* remove_like, and like_count is 0 again.
C15_Witness ==
    \E p \in PostIds :
        /\ posts[p].exists
        /\ posts[p].like_count = 0
        /\ unlikes >= 1
        /\ \A u \in Users : <<p, u>> \notin post_likes
        /\ \E n \in BagToSet(social_notifications) : n.type = "LIKE" /\ n.target_id = p

\* The like_count of the subject of a like transaction.
SubjectLikeCount(op, target, ps, cs) ==
    IF op = "toggle_post_like" THEN ps[target].like_count ELSE cs[target].like_count

\* The like id a toggle transaction works on.
ToggleLikeId(op, u, target) ==
    IF op = "toggle_post_like" THEN post_like_id(u, target) ELSE comment_like_id(u, target)

\* C16: a committed toggle on a pair with no Like document creates the
\* document and adds one to like_count, which is then at least 1; a committed
\* toggle on a pair with a Like document removes it and takes one from
\* like_count.  Two toggles in succession from no Like document therefore
\* restore like_count and leave no Like document.
C16_ToggleTwiceRestores ==
    [][\A t \in Txns :
        (/\ txn[t].pc = "run"
         /\ txn[t].op \in {"toggle_post_like", "toggle_comment_like"}
         /\ txn'[t].pc = "idle"
         /\ applied' # applied)
        => LET id     == ToggleLikeId(txn[t].op, txn[t].user_id, txn[t].target)
               before == SubjectLikeCount(txn[t].op, txn[t].target, posts, comments)
               after  == SubjectLikeCount(txn[t].op, txn[t].target, posts', comments')
           IN  IF id \notin likes
               THEN id \in likes' /\ after = before + 1 /\ after >= 1
               ELSE id \notin likes' /\ after = before - 1]_vars

\* A user liked another user's post by a toggle and took the like back by a
\* second toggle: no Like document, like_count 0 as at the start.
C16_Witness ==
    \E p \in PostIds, u \in Users :
        /\ posts[p].exists
        /\ posts[p].like_count = 0
        /\ post_like_id(u, p) \notin likes
        /\ unlikes = 1
        /\ \E n \in BagToSet(social_notifications) :
              n.type = "POST_LIKE" /\ n.sender = u /\ n.target_id = p

\* C17: no notification written by a like, a comment or a mention has its
\* sender as recipient.
C17_NoSelfNotification ==
    \A n \in BagToSet(social_notifications) : n.recipient_id # n.sender

\* An author's like of their own post committed and no notification was
\* written.
C17_Witness ==
    \E p \in PostIds :
        /\ posts[p].exists
        /\ post_like_id(posts[p].author, p) \in likes
        /\ social_notifications = EmptyBag

\* C19: a pet document exists exactly when its PetCareSettings document
\* exists, no pet document carries a breed outside the breed table, and a
\* registration with such a breed by a user without a pet is answered
\* VALIDATION_ERROR.
C19_RegistrationNeverPartial ==
    /\ \A u \in Users : registry[u].exists <=> u \in pet_settings
    /\ \A u \in Users : registry[u].exists => breed_exists(registry[u].breed)
    /\ (/\ pet_response.error_code \in {"201", "VALIDATION_ERROR", "PET_CREATION_FAILED"}
        /\ ~breed_exists(pet_response.breed))
       => pet_response.error_code = "VALIDATION_ERROR"

\* The notifications of the run of one type for one recipient.
Notified(n_type, recipient_id) ==
    CopiesIn([recipient_id |-> recipient_id, sender |-> mention_run.author_id,
              type |-> n_type, target_id |-> 1], mention_run.result)

\* C18: after a comment, the post author has exactly one COMMENT notification
\* unless the author is the commenter; every other user whose nickname is
\* mentioned has exactly one MENTION notification; the commenter, users who
\* are not mentioned, and a mention of the commenter's own nickname or of a
\* nickname nobody has, produce none.
C18_CommentAndMentionNotifications ==
    mention_run.result # SetToBag({NotRun}) =>
        LET names == findall_mentions(mention_run.text)
            a     == mention_run.author_id
            own   == mention_run.nickname_of[a]
        IN  /\ Notified("COMMENT", mention_run.post_author_id)
                  = (IF mention_run.post_author_id # a THEN 1 ELSE 0)
            /\ \A v \in Users :
                  Notified("MENTION", v)
                      = (IF /\ v # a
                            /\ mention_run.nickname_of[v] \in names
                            /\ mention_run.nickname_of[v] # own
                         THEN 1 ELSE 0)
            /\ \A n \in BagToSet(mention_run.result) :
                  /\ n.type \in {"COMMENT", "MENTION"}
                  /\ n.recipient_id \in Users
                  /\ n.sender = a

\* C20: a step changes an existing post document or removes its media only
\* when the request is its author's; and an update leaves every field but
\* text and updated_at as it was.
C20_OnlyAuthorChangesPost ==
    [][\A p \in PostIds :
        /\ (post_docs[p].exists /\ (post_docs'[p] # post_docs[p] \/ (p \in blobs /\ p \notin blobs')))
              => /\ post_response'.user_id = post_docs[p].author
                 /\ post_response'.post_id = p
                 /\ post_response'.op \in {"update_post", "delete_post"}
        /\ (post_response'.op \in {"update_post", "delete_post"}
              /\ post_response'.post_id = p
              /\ post_response'.user_id # post_docs[p].author)
              => /\ post_docs'[p] = post_docs[p]
                 /\ blobs' = blobs
                 /\ post_response'.status = "refused"
        /\ (post_response'.op = "update_post" /\ post_response'.post_id = p
              /\ post_response'.status = "updated")
              => /\ post_docs'[p] = [post_docs[p] EXCEPT !.text = post_docs'[p].text,
                                                         !.updated_at = post_docs'[p].updated_at]
                 /\ blobs' = blobs]_vars

\* The author edited the post, and then another user's request to delete it
\* was refused: the post and its media are in place.
C20_Witness ==
    \E p \in PostIds :
        /\ post_docs[p].exists
        /\ post_docs[p].updated_at > post_docs[p].created_at
        /\ p \in blobs
        /\ post_response.op = "delete_post"
        /\ post_response.post_id = p
        /\ post_response.status = "refused"
        /\ post_response.user_id # post_docs[p].author

\* C12: when the pipeline of an admission answers DUPLICATE or INVALID_IMAGE
\* the admission ends there: the pets (is_verified, nose_print_url, faiss_id),
\* the index in memory and the index file are the same after the step, and
\* that status is the response.
C12_RejectedAdmissionWritesNothing ==
    [][\A a \in Adms :
        (/\ adm[a].pc = "pipeline"
         /\ adm'[a] # adm[a]
         /\ process_image(faiss_index, adm[a].vector).status
                \in {"DUPLICATE", "INVALID_IMAGE"})
        => (/\ adm'[a] = IdleAdm
            /\ nose_status' \in {"DUPLICATE", "INVALID_IMAGE", "ERROR"}
            /\ pets' = pets
            /\ Len(faiss_index') = Len(faiss_index)
            /\ faiss_index' = faiss_index
            /\ disk_index' = disk_index
            /\ admitted' = admitted)]_vars

\* An admission was answered DUPLICATE while another pet holds the only vector.
C12_Witness ==
    /\ nose_status = "DUPLICATE"
    /\ Len(faiss_index) = 1
    /\ \E p \in PetIds : pets[p].exists /\ ~pets[p].is_verified
    /\ \A a \in Adms : adm[a] = IdleAdm

C11_OutcomeByDistance ==
    (pipeline_run.result # NoResult /\ pipeline_run.ntotal > 0) =>
        IF pipeline_run.distance <= duplicate_threshold
        THEN pipeline_run.result.status = "DUPLICATE"
        ELSE IF pipeline_run.distance >= outlier_threshold
        THEN pipeline_run.result.status = "INVALID_IMAGE"
        ELSE /\ pipeline_run.result.status = "SUCCESS"
             /\ pipeline_run.result.faiss_id = pipeline_run.ntotal

\* C14: on an empty index process_image returns SUCCESS with id 0 and
\* issues no search.
C14_EmptyIndexSkipsSearch ==
    (pipeline_run.result # NoResult /\ pipeline_run.ntotal = 0) =>
        /\ pipeline_run.result.status = "SUCCESS"
        /\ pipeline_run.result.faiss_id = 0
        /\ ~pipeline_run.result.searched

\* process_image has run on an empty index, with an image a search would
\* have called a duplicate.
C14_Witness ==
    /\ pipeline_run.result # NoResult
    /\ pipeline_run.ntotal = 0
    /\ pipeline_run.distance <= duplicate_threshold

\* A timezone-aware datetime in UTC.
IsUtcDatetime(x) == x.kind = "datetime" /\ x.aware /\ x.offset = 0

\* out has the shape of in; where in has a date or a datetime out has an
\* aware UTC datetime, and every other leaf is the same.
RECURSIVE Converted(_, _)
Converted(in, out) ==
    IF in.kind \in {"date", "datetime"} THEN IsUtcDatetime(out)
    ELSE IF in.kind = "dict"
    THEN /\ out.kind = "dict"
         /\ DOMAIN out.entries = DOMAIN in.entries
         /\ \A k \in DOMAIN in.entries : Converted(in.entries[k], out.entries[k])
    ELSE IF in.kind = "list"
    THEN /\ out.kind = "list"
         /\ DOMAIN out.elems = DOMAIN in.elems
         /\ \A i \in DOMAIN in.elems : Converted(in.elems[i], out.elems[i])
    ELSE out = in

\* Every aware datetime of the structure is, in UTC, between datetime.min
\* and datetime.max.
RECURSIVE InRange(_)
InRange(obj) ==
    IF obj.kind = "datetime"
    THEN Instant(obj) - obj.offset \in 0..(2 * MaxDay + 1)
    ELSE IF obj.kind = "dict"
    THEN \A k \in DOMAIN obj.entries : InRange(obj.entries[k])
    ELSE IF obj.kind = "list"
    THEN \A i \in DOMAIN obj.elems : InRange(obj.elems[i])
    ELSE TRUE

\* C21, as stated: for every structure of dicts and lists for_firestore
\* returns a structure of the same shape with every date and datetime leaf
\* replaced by an aware UTC datetime and every other leaf unchanged.
C21_EveryStructureConverted ==
    conversion.converted # NotConverted
        => /\ conversion.converted # Raised
           /\ Converted(conversion.obj, conversion.converted)

\* C21: the same, for structures whose aware datetimes stay between
\* datetime.min and datetime.max when moved to UTC.
C21_StructureInRangeConverted ==
    (conversion.converted # NotConverted /\ InRange(conversion.obj))
        => /\ conversion.converted # Raised
           /\ Converted(conversion.obj, conversion.converted)

\* A dict holding a list that holds a naive datetime was converted.
C21_Witness ==
    /\ conversion.converted # NotConverted
    /\ conversion.converted # Raised
    /\ conversion.obj.kind = "dict"
    /\ "a" \in DOMAIN conversion.obj.entries
    /\ conversion.obj.entries["a"].kind = "list"
    /\ \E i \in DOMAIN conversion.obj.entries["a"].elems :
          /\ conversion.obj.entries["a"].elems[i].kind = "datetime"
          /\ ~conversion.obj.entries["a"].elems[i].aware

\* C22: the number of cartoon jobs whose pipeline is running never exceeds
\* the size of the worker pool.
C22_RunningWithinPool == Cardinality(running_jobs) <= WorkerPoolSize

\* C23: an admission that is about to read the index finds the in-memory
\* index equal to the file: a vector whose flush failed has been taken out
\* of memory again.
C23_FailedFlushRolledBack ==
    \A a \in Adms : adm[a].pc = "pipeline" => faiss_index = disk_index

\* C24: a notification is written only by a step that commits the writes
\* of a transaction (every commit changes a counter of a post or of a
\* comment); a transaction that is still running, or that ends without
\* committing, has written none.
C24_NotificationsOnlyAtCommit ==
    [][social_notifications' # social_notifications
          => (posts' # posts \/ comments' # comments)]_vars

\* C25: while the document of a post exists every blob it names exists:
\* the document is deleted first and the blobs only after that.
C25_NoPostWithDeletedBlob ==
    \A p \in PostIds : post_docs[p].exists => post_docs[p].image_urls \subseteq blobs

\* C26: a request that presents a token named in an earlier successful
\* logout is rejected: the last answer to a refresh or to a protected
\* request made with such a token is not 200.
C26_LoggedOutTokenRejected ==
    (auth_response.op \in {"refresh", "request"} /\ auth_response.jti \in logged_out)
        => auth_response.code # 200

\* C27: when the pages have been followed to the end over an unchanged
\* collection, the records returned are the matching records, each once,
\* in sort order.
C27_PagingReturnsEveryRecordOnce ==
    ~paging.has_more
        => paging.returned = matching_query(paging.docs, paging.record_type)

\* C28: whatever the interleaving of the register_pet requests, no user has
\* more than one Pet document.
C28_AtMostOnePetPerUser ==
    \A u \in Users :
        Cardinality({i \in DOMAIN pet_collection : pet_collection[i] = u}) <= 1

\* C29: every submitted cartoon job eventually reaches COMPLETED or FAILED.
C29_EveryJobEventuallyTerminal ==
    \A j \in JobIds : jobs[j].exists ~> (jobs[j].status \in {COMPLETED, FAILED})

\* The care records of a pet.
RecordsOfPet(logs, p) == {i \in DOMAIN logs : logs[i] = p}

\* C30: the care settings and the care records of a pet change only in a
\* step whose request comes from the pet's owner.
C30_OnlyOwnerChangesCare ==
    [][\A p \in CarePets :
          (\/ care_settings'[p] # care_settings[p]
           \/ RecordsOfPet(care_logs', p) # RecordsOfPet(care_logs, p))
              => care_response'.caller = care_owner[p]]_vars

\* No run of process_image under study.
IdleRun == [ntotal |-> 0, distance |-> 0, result |-> NoResult]

Init ==
    /\ InitJobs
    /\ InitNose
    /\ InitSocial
    /\ pipeline_run = IdleRun
    /\ InitRegistration /\ breed_service = FALSE
    /\ mention_run = IdleMention
    /\ InitPosts
    /\ conversion = IdleConversion
    /\ InitThreads
    /\ InitAuth
    /\ paging = NoPaging
    /\ InitRegThreads
    /\ care_owner = [p \in CarePets |-> "none"] /\ care_settings = [p \in CarePets |-> "none"]
       /\ care_logs = << >> /\ care_response = NoCareResponse

\* The initial states of the study of process_image: one per input.
InitRuns ==
    /\ InitJobs
    /\ InitNose
    /\ InitSocial
    /\ InitPipeline
    /\ InitRegistration /\ breed_service = FALSE
    /\ mention_run = IdleMention
    /\ InitPosts
    /\ conversion = IdleConversion
    /\ InitThreads
    /\ InitAuth
    /\ paging = NoPaging
    /\ InitRegThreads
    /\ care_owner = [p \in CarePets |-> "none"] /\ care_settings = [p \in CarePets |-> "none"]
       /\ care_logs = << >> /\ care_response = NoCareResponse

\* PetService with and without a breed service.
InitServices ==
    /\ InitJobs
    /\ InitNose
    /\ InitSocial
    /\ pipeline_run = IdleRun
    /\ InitRegistration /\ breed_service \in BOOLEAN
    /\ mention_run = IdleMention
    /\ InitPosts
    /\ conversion = IdleConversion
    /\ InitThreads
    /\ InitAuth
    /\ paging = NoPaging
    /\ InitRegThreads
    /\ care_owner = [p \in CarePets |-> "none"] /\ care_settings = [p \in CarePets |-> "none"]
       /\ care_logs = << >> /\ care_response = NoCareResponse

\* Any nicknames, any text, any commenter and post author.
InitComments ==
    /\ InitJobs
    /\ InitNose
    /\ InitSocial
    /\ pipeline_run = IdleRun
    /\ InitRegistration /\ breed_service = FALSE
    /\ InitMention
    /\ InitPosts
    /\ conversion = IdleConversion
    /\ InitThreads
    /\ InitAuth
    /\ paging = NoPaging
    /\ InitRegThreads
    /\ care_owner = [p \in CarePets |-> "none"] /\ care_settings = [p \in CarePets |-> "none"]
       /\ care_logs = << >> /\ care_response = NoCareResponse

\* Any object of the study of for_firestore.
InitConversions ==
    /\ InitJobs
    /\ InitNose
    /\ InitSocial
    /\ pipeline_run = IdleRun
    /\ InitRegistration /\ breed_service = FALSE
    /\ mention_run = IdleMention
    /\ InitPosts
    /\ InitConversion
    /\ InitThreads
    /\ InitAuth
    /\ paging = NoPaging
    /\ InitRegThreads
    /\ care_owner = [p \in CarePets |-> "none"] /\ care_settings = [p \in CarePets |-> "none"]
       /\ care_logs = << >> /\ care_response = NoCareResponse

\* Any collection of care records and any page size.
InitPagings ==
    /\ InitJobs
    /\ InitNose
    /\ InitSocial
    /\ pipeline_run = IdleRun
    /\ InitRegistration /\ breed_service = FALSE
    /\ mention_run = IdleMention
    /\ InitPosts
    /\ conversion = IdleConversion
    /\ InitThreads
    /\ InitAuth
    /\ InitPaging
    /\ InitRegThreads
    /\ care_owner = [p \in CarePets |-> "none"] /\ care_settings = [p \in CarePets |-> "none"]
       /\ care_logs = << >> /\ care_response = NoCareResponse

\* Any owners of the pets of the pet care requests.
InitCares ==
    /\ InitJobs
    /\ InitNose
    /\ InitSocial
    /\ pipeline_run = IdleRun
    /\ InitRegistration /\ breed_service = FALSE
    /\ mention_run = IdleMention
    /\ InitPosts
    /\ conversion = IdleConversion
    /\ InitThreads
    /\ InitAuth
    /\ paging = NoPaging
    /\ InitRegThreads
    /\ InitCare

SpecJobs == Init /\ [][NextJobs]_vars

SpecNose == Init /\ [][NextNose]_vars

SpecSocial == Init /\ [][NextSocial]_vars

SpecPipeline == InitRuns /\ [][NextPipeline]_vars

SpecRegistration == InitServices /\ [][NextRegistration]_vars

SpecMention == InitComments /\ [][NextMention]_vars

SpecPosts == Init /\ [][NextPosts]_vars

SpecConversion == InitConversions /\ [][NextConversion]_vars

SpecThreads == Init /\ [][NextThreads]_vars

SpecAuth == Init /\ [][NextAuth]_vars

SpecPaging == InitPagings /\ [][NextPaging]_vars

SpecRegThreads == Init /\ [][NextRegThreads]_vars

SpecJobsFair == Init /\ [][NextJobs]_vars /\ WorkerFairness

SpecCare == InitCares /\ [][NextCare]_vars

====
